---- MODULE Spec2Model ----
(***************************************************************************)
(* Episode lifecycle and retention engine of the podcast downloader:       *)
(* PodcastService.process_podcasts / process_single_podcast (main.py) over *)
(* the PostgreSQL catalog (src/database.py) and the Google Drive client    *)
(* (src/google_drive_uploader.py).                                         *)
(*                                                                         *)
(* Optional values (Python None / SQL NULL) are sets of at most one        *)
(* element: {} is None, {x} is the value x.                                *)
(***************************************************************************)
EXTENDS Integers, Sequences, FiniteSets, TLC

\* ------------------------------------------------------------------ bounds
\* Distinct audio URLs the remote feeds can ever publish.
MaxUrls == 3
\* Largest keep_count a feed is configured with.
MaxKeep == 1
\* Calls of add_or_update_podcast and deletions in one behaviour of SpecCalls.
MaxCalls == 3
\* Connections calling add_episode at the same time (specification SpecConc).
NumProcs == 2
\* Distinct episode guids, and rows of a catalog handed to a function called on
\* its own.
MaxGuid == 2
MaxRows == 2
\* Dashboard requests in flight at once.
NumRequests == 2
\* Items of a raw RSS document.
MaxRaw == 7
\* Largest settings.max_episodes_per_check of a configuration.
MaxPerCheck == 2
\* Characters of an episode title handed to _generate_filename.
MaxTitle == 4
\* Times the dashboard process is started again.
MaxRestarts == 1

\* ------------------------------------------------------- program constants
\* feed_parser.get_latest_episodes(rss_url, 50)
FetchLimit == 50
\* PodcastDownloader.get_latest_episodes: eps_with_dates[:5]
LatestCap == 5

\* config.get_podcasts(): the names of the enabled feeds of podcasts.json, in
\* the order the pass processes them
podcasts_cfg == <<1, 2>>
NumFeeds == Len(podcasts_cfg)
Feeds == {podcasts_cfg[i] : i \in 1..NumFeeds}
Urls == 1..MaxUrls
Procs == 1..NumProcs
None == {}
KeepCounts == {None} \cup {{k} : k \in (-1)..MaxKeep}

VARIABLES
  keep_count_cfg,   \* podcast_config['keep_count'] of each feed (None = absent)
  folder_name_cfg,  \* podcast_config['folder_name'] of each feed
  drive_uploader,   \* self.drive_uploader is not None
  feed_entries,     \* remote RSS content: the valid entries (audio URLs) of each feed
  episodes,         \* table episodes; a row's id is its position
  podcasts,         \* table podcasts: feed name -> None or {row}
  drive,            \* files in Google Drive: set of [id, name, folder]
  clock,            \* datetime.now() as last read by add_episode
  pc,               \* position of the pass
  feed_idx,         \* index of podcast_config in process_podcasts' loop
  folder_mapping,   \* folder_name -> None or {folder id}, built at pass start
  todo,             \* episodes_reversed still to be looked at (audio URLs)
  episode_records,  \* episode_records of the feed being processed
  rec_idx,          \* records already handled by the download/upload loop
  downloaded_count,
  uploaded_count,
  total_downloaded,
  total_uploaded,
  errors,           \* len(errors) in process_podcasts
  to_remove,        \* episodes_to_remove still to be deleted (row ids)
  conn,             \* per connection: the add_episode call in progress
  call,             \* the last call of a catalog or selection function on its own
  svc,              \* dashboard and service processes: lock file, pid file, runs
  hist              \* history of the run, read only by the properties

vars == <<keep_count_cfg, folder_name_cfg, drive_uploader, feed_entries, episodes,
          podcasts, drive, clock, pc, feed_idx, folder_mapping, todo,
          episode_records, rec_idx, downloaded_count, uploaded_count,
          total_downloaded, total_uploaded, errors, to_remove, conn, call, svc,
          hist>>

cfg_vars == <<keep_count_cfg, folder_name_cfg, drive_uploader>>
feed_local == <<todo, episode_records, rec_idx, downloaded_count, uploaded_count,
                to_remove>>
totals == <<total_downloaded, total_uploaded, errors>>

\* --------------------------------------------------------------- helpers
The(s) == CHOOSE x \in s : TRUE

Max(S) == CHOOSE x \in S : \A y \in S : y <= x

Ids == DOMAIN episodes

\* list[:n]
Take(s, n) == SubSeq(s, 1, IF n < Len(s) THEN n ELSE Len(s))

\* list[k:] with Python's meaning of a negative start
Slice(s, k) ==
  LET start == IF k >= 0 THEN k
               ELSE IF Len(s) + k > 0 THEN Len(s) + k ELSE 0
  IN  SubSeq(s, start + 1, Len(s))

\* list(reversed(s))
Reversed(s) == [i \in 1..Len(s) |-> s[Len(s) + 1 - i]]

\* The parsed publish date of the entry with audio URL u.
PubDate(u) == u

\* The sanitized title and extension of the entry with audio URL u: every
\* third entry carries a title of its own, the others share one.
Title(u) == IF u % 3 = 0 THEN 2 ELSE 1

\* The feed whose RSS carries the entry with audio URL u: the last URL is the
\* second feed's, the others are the first feed's.
FeedOf(u) == IF u < MaxUrls THEN 1 ELSE 2

\* sort(key=parsed date, reverse=True) of a set of entries
RECURSIVE SortByDateDesc(_)
SortByDateDesc(S) ==
  IF S = {} THEN <<>>
  ELSE LET u == CHOOSE x \in S : \A y \in S : PubDate(y) <= PubDate(x)
       IN  <<u>> \o SortByDateDesc(S \ {u})

\* ------------------------------------------------ catalog (src/database.py)
\* MaxSeq without its WHERE podcast_name = name
MaxSeqAnyFeed(tbl, name) ==
  LET S == {tbl[i].podcast_seq : i \in DOMAIN tbl}
  IN  IF S = {} THEN 0 ELSE Max(S)

\* SELECT MAX(podcast_seq) FROM episodes WHERE podcast_name = name;
\* max_seq = row[0] if row and row[0] is not None else 0
MaxSeq(tbl, name) ==
  LET S == {tbl[i].podcast_seq : i \in {j \in DOMAIN tbl : tbl[j].podcast_name = name}}
  IN  IF S = {} THEN 0 ELSE Max(S)

\* podcast_seq = max_seq + 1
NextSeq(tbl, name) == MaxSeq(tbl, name) + 1

\* NewRow without the sequence number
NewRowNoSeq(name, url, now, seq) ==
  [podcast_name |-> name, episode_url |-> url, episode_guid |-> None,
   downloaded_date |-> now, drive_file_id |-> None, in_drive |-> 0,
   podcast_seq |-> 0]

\* NewRow with in_drive defaulting to 1
NewRowInDrive(name, url, now, seq) ==
  [podcast_name |-> name, episode_url |-> url, episode_guid |-> None,
   downloaded_date |-> now, drive_file_id |-> None, in_drive |-> 1,
   podcast_seq |-> seq]

\* The row INSERTed by add_episode: file_path, drive_file_id and file_size are
\* passed as None by the pass, in_drive takes its DEFAULT 0.
NewRow(name, url, now, seq) ==
  [podcast_name |-> name, episode_url |-> url, episode_guid |-> None,
   downloaded_date |-> now, drive_file_id |-> None, in_drive |-> 0,
   podcast_seq |-> seq]

\* episode_url TEXT NOT NULL UNIQUE: whether the INSERT of url is accepted
url_unique(tbl, url) == \A i \in DOMAIN tbl : tbl[i].episode_url # url

\* add_episode with podcast_seq not provided, as one committed unit
add_episode(tbl, name, url, now) ==
  Append(tbl, NewRow(name, url, now, NextSeq(tbl, name)))

\* episode_exists looking at the guid alone
episode_exists_by_guid(tbl, url, guid) ==
  IF guid # None
    THEN \E i \in DOMAIN tbl : tbl[i].episode_guid = guid
    ELSE FALSE

\* episode_exists comparing the url with the first row of the table only
episode_exists_first_row(tbl, url, guid) ==
  url # None /\ tbl # <<>> /\ tbl[1].episode_url = The(url)

\* episode_exists(episode_url, episode_guid): url and guid are optional
episode_exists(tbl, url, guid) ==
  IF url # None
    THEN \E i \in DOMAIN tbl : tbl[i].episode_url = The(url)
    ELSE IF guid # None
      THEN \E i \in DOMAIN tbl : tbl[i].episode_guid = guid
      ELSE FALSE

\* update_episode_drive_info with WHERE podcast_name and no remote id yet
\* instead of WHERE id
update_episode_drive_info_feed_wide(tbl, id, file_id) ==
  [i \in DOMAIN tbl |->
     IF tbl[i].podcast_name = tbl[id].podcast_name /\ tbl[i].drive_file_id = None
       THEN [tbl[i] EXCEPT !.drive_file_id = {file_id}, !.in_drive = 1]
       ELSE tbl[i]]

\* UPDATE episodes SET drive_file_id, drive_file_url, in_drive = 1 WHERE id
update_episode_drive_info(tbl, id, file_id) ==
  [tbl EXCEPT ![id].drive_file_id = {file_id}, ![id].in_drive = 1]

\* update_episode_drive_info as two commits, in_drive first: what the first
\* leaves when the process stops before the second
update_interrupted_after_in_drive(tbl, id, file_id) ==
  [tbl EXCEPT ![id].in_drive = 1]

\* update_episode_drive_info when the process stops before its conn.commit():
\* the one UPDATE is not committed
update_interrupted(tbl, id, file_id) == tbl

\* mark_episode_in_drive as DELETE FROM episodes WHERE id
mark_episode_in_drive_deleting(tbl, id, flag) ==
  SubSeq(tbl, 1, id - 1) \o SubSeq(tbl, id + 1, Len(tbl))

\* mark_episode_in_drive forgetting the remote id as well
mark_episode_in_drive_clearing(tbl, id, flag) ==
  [tbl EXCEPT ![id].in_drive = IF flag THEN 1 ELSE 0, ![id].drive_file_id = None]

\* UPDATE episodes SET in_drive = (1 if in_drive else 0) WHERE id
mark_episode_in_drive(tbl, id, flag) ==
  [tbl EXCEPT ![id].in_drive = IF flag THEN 1 ELSE 0]

\* WithDrive without its podcast_name = name
WithDriveAnyFeed(tbl, name) ==
  {i \in DOMAIN tbl : /\ tbl[i].drive_file_id # None
                      /\ tbl[i].in_drive = 1}

\* WHERE podcast_name = name AND drive_file_id IS NOT NULL AND in_drive = 1
WithDrive(tbl, name) ==
  {i \in DOMAIN tbl : /\ tbl[i].podcast_name = name
                      /\ tbl[i].drive_file_id # None
                      /\ tbl[i].in_drive = 1}

\* ORDER BY downloaded_date DESC: rows with the same date come in any order
NewestFirst(tbl, s) ==
  \A i, j \in DOMAIN s :
    i < j => tbl[s[i]].downloaded_date >= tbl[s[j]].downloaded_date

\* get_episodes_with_drive with ORDER BY downloaded_date ASC
get_episodes_with_drive_asc(tbl, name) ==
  LET S == WithDrive(tbl, name)
  IN  {s \in [1..Cardinality(S) -> S] :
         /\ \A i, j \in DOMAIN s : i # j => s[i] # s[j]
         /\ NewestFirst(tbl, Reversed(s))}

\* The lists get_episodes_with_drive may return (row ids)
get_episodes_with_drive(tbl, name) ==
  LET S == WithDrive(tbl, name)
  IN  {s \in [1..Cardinality(S) -> S] :
         /\ \A i, j \in DOMAIN s : i # j => s[i] # s[j]
         /\ NewestFirst(tbl, s)}

\* add_or_update_podcast: upsert keyed on name, keep_count None stored as -1.
\* Of the row's columns the model keeps keep_count, the one the pass reads back.
add_or_update_podcast(tbl, name, keep) ==
  [tbl EXCEPT ![name] = {[keep_count |-> IF keep = None THEN {-1} ELSE keep]}]

\* get_podcast(name).get('keep_count'), None when there is no row
db_keep_count(tbl, name) ==
  IF tbl[name] = None THEN None ELSE The(tbl[name]).keep_count

\* Table podcasts with all its columns, as a set of rows; seq is the last
\* value of the SERIAL sequence behind id.
NoPodcasts == [rows |-> {}, seq |-> 0]

RowNamed(rows, name) == {r \in rows : r.name = name}

\* the row an INSERT makes of the arguments: the id drawn from the sequence,
\* enabled by default, keep_count None as -1
inserted_podcast_row(id, args, last_checked) ==
  [id |-> id, name |-> args.name, rss_url |-> args.rss_url,
   folder_name |-> args.folder_name, last_checked |-> {last_checked},
   drive_folder_id |-> args.drive_folder_id, enabled |-> TRUE,
   keep_count |-> IF args.keep_count = None THEN {-1} ELSE args.keep_count]

\* DELETE of the row and INSERT of a new one: the row gets a new id
replace_podcast_row(t, args, last_checked) ==
  LET id == t.seq + 1
  IN  [rows |-> (t.rows \ RowNamed(t.rows, args.name)) \cup
                  {inserted_podcast_row(id, args, last_checked)},
       seq |-> id, id |-> id]

\* add_or_update_podcast on the whole row: INSERT ... ON CONFLICT (name) DO
\* UPDATE SET rss_url, folder_name, last_checked, drive_folder_id, keep_count
\* RETURNING id. The INSERT draws a value of the sequence whether or not it
\* conflicts; the conflicting row keeps its id and its enabled flag.
add_or_update_podcast_row(t, args, last_checked) ==
  LET id == t.seq + 1
      excluded == inserted_podcast_row(id, args, last_checked)
      old == RowNamed(t.rows, args.name)
      new == IF old = {}
               THEN excluded
               ELSE [The(old) EXCEPT !.rss_url = excluded.rss_url,
                                     !.folder_name = excluded.folder_name,
                                     !.last_checked = excluded.last_checked,
                                     !.drive_folder_id = excluded.drive_folder_id,
                                     !.keep_count = excluded.keep_count]
  IN  [rows |-> (t.rows \ old) \cup {new}, seq |-> id, id |-> new.id]

\* DELETE FROM podcasts WHERE name = %s (dashboard)
delete_podcast_row(t, name) ==
  [rows |-> t.rows \ RowNamed(t.rows, name), seq |-> t.seq]

\* ------------------------------- Google Drive (src/google_drive_uploader.py)
\* find_file: an id of a file of that name in the folder, or None; an API
\* error is logged and reported as None
find_file(files, name, folder, api_ok) ==
  IF api_ok
    THEN {f.id : f \in {g \in files : g.name = name /\ g.folder = folder}}
    ELSE {}

\* upload_stream creating the file whether or not find_file found one
upload_stream_always_create(files, name, folder, id, find_ok, create_ok) ==
  IF create_ok
    THEN {[file_id |-> {id}, status |-> "uploaded",
           files |-> files \cup {[id |-> id, name |-> name, folder |-> folder]}]}
    ELSE {[file_id |-> None, status |-> "failed", files |-> files]}

\* upload_stream: the ids it may return ({} alone: failure) with the status of
\* the result, and the files after. A file created by the upload of catalog
\* row id takes the id of that row as its (fresh) Drive id.
upload_stream(files, name, folder, id, find_ok, create_ok) ==
  LET found == find_file(files, name, folder, find_ok)
  IN  IF found # {}
        THEN {[file_id |-> {x}, status |-> "already_exists", files |-> files] :
                x \in found}
        ELSE IF create_ok
          THEN {[file_id |-> {id}, status |-> "uploaded",
                 files |-> files \cup {[id |-> id, name |-> name, folder |-> folder]}]}
          ELSE {[file_id |-> None, status |-> "failed", files |-> files]}

\* delete_file: True when the API deleted the file, False on an HttpError
\* (a file that is gone answers 404)
delete_file_ok(files, file_id, api_ok) ==
  api_ok /\ \E f \in files : f.id = file_id

delete_file(files, file_id, api_ok) ==
  IF delete_file_ok(files, file_id, api_ok)
    THEN {f \in files : f.id # file_id}
    ELSE files

\* ------------------------------------------------------ the pass (main.py)
\* The feed whose podcast_config the loop of process_podcasts is at
CurFeed == podcasts_cfg[feed_idx]

\* drive_folder_id taken from the folder name, mapping or not
drive_folder_id_by_name(f) == {folder_name_cfg[f]}

\* folder_mapping.get(folder_name)
drive_folder_id(f) == folder_mapping[folder_name_cfg[f]]

\* valid_entries keeping the entries without an enclosure
valid_entries_with_date(raw) ==
  {The(e.parsed) : e \in {x \in raw : x.parsed # None}}

\* eps = [e for e in eps if e["parsed"] and e["audio_url"]]: the entries of a
\* raw document that have a date that parses and an enclosure, by audio url
valid_entries(raw) ==
  {The(e.audio_url) : e \in {x \in raw : x.parsed # None /\ x.audio_url # None}}

\* feed_parser.get_latest_episodes(rss_url, max_episodes): the entries with a
\* parsed date and an audio URL, newest first, at most max_episodes
parser_latest_episodes(entries, max_episodes) ==
  Take(SortByDateDesc(entries), max_episodes)

\* downloader.get_latest_episodes(episodes): sorted again, the latest 5
get_latest_episodes(eps) ==
  Take(SortByDateDesc({eps[i] : i \in DOMAIN eps}), LatestCap)

\* episodes_reversed without the reversal: newest first
episodes_newest_first(entries) ==
  get_latest_episodes(parser_latest_episodes(entries, FetchLimit))

\* episodes_reversed for remote content `entries`
episodes_reversed(entries) ==
  Reversed(get_latest_episodes(parser_latest_episodes(entries, FetchLimit)))

\* prefix_for_drive = podcast_seq or upload_num or db_id
prefix_for_drive(rec) ==
  IF rec.podcast_seq # None /\ The(rec.podcast_seq) # 0
    THEN The(rec.podcast_seq)
    ELSE IF rec.upload_num # 0 THEN rec.upload_num ELSE rec.db_id

\* custom_drive_name = f"{prefix_for_drive}-{rest}", rest being the generated
\* filename without its numeric prefix
custom_drive_name(rec) ==
  [prefix |-> prefix_for_drive(rec), rest |-> Title(rec.url)]

\* effective_keep from the config value, else the catalog value, else None
effective_keep(cfg_keep, db_keep) ==
  IF cfg_keep # None THEN cfg_keep
  ELSE IF db_keep # None THEN db_keep
  ELSE None

\* retention_enforced without its effective_keep > 0
retention_enforced_any_keep(eff, uploader) ==
  eff # None /\ uploader

\* retention_enforced with effective_keep >= 0: a keep_count of 0 retains none
retention_enforced_from_zero(eff, uploader) ==
  eff # None /\ The(eff) >= 0 /\ uploader

\* if effective_keep is not None and effective_keep > 0 and self.drive_uploader
retention_enforced(eff, uploader) ==
  eff # None /\ The(eff) > 0 /\ uploader

\* episodes_to_remove starting one row early
episodes_to_remove_one_early(drive_episodes, keep) == Slice(drive_episodes, keep - 1)

\* episodes_to_remove = drive_episodes[effective_keep:]
episodes_to_remove(drive_episodes, keep) == Slice(drive_episodes, keep)

\* after_feed_error leaving the loop (break instead of continue)
after_feed_error_break(idx) == NumFeeds + 1

\* for podcast_config in podcasts: ... except Exception: ...; continue
after_feed_error(idx) == idx + 1

\* marks_removed whatever delete_file returned
marks_removed_always(deleted) == TRUE

\* if deleted: self.database.mark_episode_in_drive(ep_id, False)
marks_removed(deleted) == deleted

\* after_record leaving the loop at the first failed download or upload
after_record_break(failed, idx, n) ==
  IF failed \/ idx = n THEN "retain" ELSE "transfer"

\* for rec in episode_records: a failed download or upload is logged and the
\* loop goes on
after_record(failed, idx, n) == IF idx = n THEN "retain" ELSE "transfer"

\* where the feed goes once the insert loop has seen its last candidate
after_insert_loop(recs) == IF recs = <<>> THEN "retain" ELSE "transfer"

\* datetime.now() in add_episode: later than the last reading when the feed was
\* fetched in between, and the same microsecond or a later one when the last
\* reading was the previous turn of the same loop
ClockReadings(recs) == IF recs = <<>> THEN {clock + 1} ELSE {clock, clock + 1}

NoHistFeed ==
  [outcomes |-> <<>>, loop_done |-> FALSE, unique_violation |-> FALSE,
   cut_short |-> FALSE,
   ret_entered |-> FALSE,
   ret_done |-> FALSE, ret_on |-> FALSE, ret_listed |-> <<>>, ret_keep |-> 0,
   ret_fail |-> FALSE]

\* the locals of process_podcasts and process_single_podcast when no pass runs
NoPass ==
  [pc |-> "idle", feed_idx |-> 0, folder_mapping |-> [fn \in Feeds |-> None],
   todo |-> <<>>, episode_records |-> <<>>, rec_idx |-> 0]

NoCall == [op |-> "none"]

Requests == 1..NumRequests

\* a request that is not inside a lock function
NoRequest == [pc |-> "idle", kind |-> "none", fn |-> "none", resp |-> "none"]

\* no run_once.lock, no task.pid, no main.py process, no request answered
NoService ==
  [lock_file |-> FALSE,
   lock |-> None,
   dashboard |-> 1,
   req |-> [r \in Requests |-> NoRequest],
   once |-> [r \in Requests |-> "idle"],
   resp |-> [r \in Requests |-> "none"],
   pid_file |-> FALSE,
   sched |-> "none",
   exit |-> "none"]

NoConn == [pc |-> "idle", name |-> 0, url |-> 0, now |-> 0, max_seq |-> 0]

Init ==
  /\ keep_count_cfg \in [Feeds -> KeepCounts]
  /\ folder_name_cfg = [f \in Feeds |-> f]
  /\ drive_uploader \in BOOLEAN
  /\ feed_entries = [f \in Feeds |-> {}]
  /\ episodes = <<>>
  /\ podcasts = [f \in Feeds |-> None]
  /\ drive = {}
  /\ clock = 0
  /\ pc = "idle"
  /\ feed_idx = 0
  /\ folder_mapping = [fn \in Feeds |-> None]
  /\ todo = <<>>
  /\ episode_records = <<>>
  /\ rec_idx = 0
  /\ downloaded_count = 0
  /\ uploaded_count = 0
  /\ total_downloaded = 0
  /\ total_uploaded = 0
  /\ errors = 0
  /\ to_remove = <<>>
  /\ conn = [p \in Procs |-> NoConn]
  /\ call = NoCall
  /\ svc = NoService
  /\ hist = [visited |-> {}, results |-> <<>>, dl_failed |-> {}, settled |-> {},
             del_failed |-> {}, feed |-> NoHistFeed, last_pass |-> None,
             stopped |-> "no", reserved_before |-> {}]

\* The remote feed f publishes a new entry u, newer than those it holds
\* (between two passes).
Publish(f, u) ==
  /\ pc = "idle"
  /\ FeedOf(u) = f
  /\ \A v \in feed_entries[f] : PubDate(v) < PubDate(u)
  /\ feed_entries' = [feed_entries EXCEPT ![f] = @ \cup {u}]
  /\ hist' = [hist EXCEPT !.settled = @ \ {f}]
  /\ UNCHANGED <<cfg_vars, call, svc, episodes, podcasts, drive, clock, pc, feed_idx,
                 folder_mapping, feed_local, totals, conn>>

\* process_podcasts up to its loop: setup_podcast_folders gives a folder id to
\* every folder, or to none when the root folder cannot be set up (and there is
\* no mapping without an uploader)
StartPass ==
  /\ pc = "idle"
  /\ \E made \in {{}, {folder_name_cfg[f] : f \in Feeds}} :
       /\ drive_uploader \/ made = {}
       /\ folder_mapping' = [fn \in Feeds |-> IF fn \in made THEN {fn} ELSE None]
  /\ pc' = "feed"
  /\ feed_idx' = 1
  /\ total_downloaded' = 0
  /\ total_uploaded' = 0
  /\ errors' = 0
  /\ hist' = [hist EXCEPT !.visited = {}, !.results = <<>>, !.feed = NoHistFeed,
                          !.last_pass = None, !.stopped = "no",
                          !.reserved_before =
                            {i \in DOMAIN episodes : episodes[i].drive_file_id = None}]
  /\ UNCHANGED <<cfg_vars, call, svc, feed_entries, episodes, podcasts, drive, clock,
                 feed_local, conn>>

\* process_single_podcast up to its try: add_or_update_podcast; a catalog
\* error there propagates to process_podcasts, which counts it and continues
BeginFeed ==
  /\ pc = "feed"
  /\ feed_idx <= NumFeeds
  /\ \E db_ok \in BOOLEAN :
       IF db_ok
         THEN /\ podcasts' = add_or_update_podcast(podcasts, CurFeed,
                                                     keep_count_cfg[CurFeed])
              /\ pc' = "fetch"
              /\ hist' = [hist EXCEPT !.visited = @ \cup {CurFeed},
                                      !.feed = NoHistFeed]
              /\ UNCHANGED <<feed_idx, errors>>
         ELSE /\ errors' = errors + 1
              /\ feed_idx' = after_feed_error(feed_idx)
              /\ hist' = [hist EXCEPT
                            !.visited = @ \cup {CurFeed},
                            !.results = Append(@, [feed |-> CurFeed, raised |-> TRUE,
                                                   cut_short |-> TRUE,
                                                   downloaded |-> 0, uploaded |-> 0]),
                            !.feed = NoHistFeed]
              /\ UNCHANGED <<podcasts, pc>>
  /\ todo' = <<>>
  /\ episode_records' = <<>>
  /\ rec_idx' = 0
  /\ downloaded_count' = 0
  /\ uploaded_count' = 0
  /\ to_remove' = <<>>
  /\ UNCHANGED <<cfg_vars, call, svc, feed_entries, episodes, drive, clock, folder_mapping,
                 total_downloaded, total_uploaded, conn>>

\* feed_parser.get_latest_episodes, downloader.get_latest_episodes, reversed:
\* no episodes (or a fetch error, reported as []) returns from the feed at once
FetchFeed ==
  /\ pc = "fetch"
  /\ \E net_ok \in BOOLEAN :
       LET eps == IF net_ok THEN episodes_reversed(feed_entries[CurFeed]) ELSE <<>>
       IN  /\ todo' = eps
           /\ pc' = IF eps = <<>> THEN "return" ELSE "insert"
  /\ UNCHANGED <<cfg_vars, call, svc, feed_entries, episodes, podcasts, drive, clock, feed_idx,
                 folder_mapping, episode_records, rec_idx, downloaded_count,
                 uploaded_count, to_remove, totals, conn, hist>>

\* One turn of the loop over episodes_reversed: episode_exists, add_episode,
\* get_episode_by_id, episode_records.append. A catalog error in episode_exists
\* or add_episode (an outage, or the INSERT refused by the UNIQUE constraint)
\* ends the feed (except at the end of process_single_podcast); one in
\* get_episode_by_id leaves the episode without podcast_seq.
InsertStep ==
  /\ pc = "insert"
  /\ todo # <<>>
  /\ LET u == Head(todo)
         f == CurFeed
     IN  \E db_ok \in BOOLEAN :
           IF ~db_ok
             THEN /\ pc' = "return"
                  /\ hist' = [hist EXCEPT !.feed.cut_short = TRUE]
                  /\ UNCHANGED <<episodes, clock, todo, episode_records>>
             ELSE IF ~episode_exists(episodes, {u}, None) /\ ~url_unique(episodes, u)
             THEN /\ pc' = "return"
                  /\ hist' = [hist EXCEPT !.feed.unique_violation = TRUE,
                                          !.feed.cut_short = TRUE]
                  /\ UNCHANGED <<episodes, clock, todo, episode_records>>
             ELSE
               /\ todo' = Tail(todo)
               /\ IF episode_exists(episodes, {u}, None)
                    THEN UNCHANGED <<episodes, clock, episode_records>>
                    ELSE \E now \in ClockReadings(episode_records), row_ok \in BOOLEAN :
                           /\ clock' = now
                           /\ episodes' = add_episode(episodes, f, u, now)
                           /\ episode_records' = Append(episode_records,
                                [url |-> u,
                                 db_id |-> Len(episodes'),
                                 podcast_seq |->
                                   IF row_ok
                                     THEN {episodes'[Len(episodes')].podcast_seq}
                                     ELSE None,
                                 upload_num |-> Len(episode_records) + 1])
               /\ IF todo' = <<>>
                    THEN /\ pc' = after_insert_loop(episode_records')
                         /\ hist' = [hist EXCEPT !.feed.loop_done = TRUE]
                    ELSE UNCHANGED <<pc, hist>>
  /\ UNCHANGED <<cfg_vars, call, svc, feed_entries, podcasts, drive, feed_idx, folder_mapping,
                 rec_idx, downloaded_count, uploaded_count, to_remove, totals, conn>>

\* One turn of the loop over episode_records: download_episode_stream, then
\* upload_stream and update_episode_drive_info when Drive and the folder are
\* there. A catalog error in update_episode_drive_info ends the feed.
TransferStep ==
  /\ pc = "transfer"
  /\ rec_idx < Len(episode_records)
  /\ LET rec == episode_records[rec_idx + 1]
         n == Len(episode_records)
     IN  \E dl_ok \in BOOLEAN :
           IF ~dl_ok
             THEN /\ hist' = [hist EXCEPT !.dl_failed = @ \cup {rec.db_id},
                                          !.feed.outcomes = Append(@, "dl_failed")]
                  /\ rec_idx' = rec_idx + 1
                  /\ pc' = after_record(TRUE, rec_idx', n)
                  /\ UNCHANGED <<episodes, drive, downloaded_count, uploaded_count>>
             ELSE
               /\ downloaded_count' = downloaded_count + 1
               /\ IF drive_uploader /\ drive_folder_id(CurFeed) # None
                    THEN \E find_ok, create_ok, db_ok \in BOOLEAN :
                         \E up \in upload_stream(drive, custom_drive_name(rec),
                                      The(drive_folder_id(CurFeed)), rec.db_id,
                                      find_ok, create_ok) :
                           /\ drive' = up.files
                           /\ IF up.file_id # None
                                THEN /\ uploaded_count' = uploaded_count + 1
                                     /\ IF db_ok
                                          THEN /\ episodes' = update_episode_drive_info(
                                                    episodes, rec.db_id, The(up.file_id))
                                               /\ rec_idx' = rec_idx + 1
                                               /\ pc' = after_record(FALSE, rec_idx', n)
                                               /\ hist' = [hist EXCEPT !.feed.outcomes =
                                                             Append(@, up.status)]
                                          ELSE /\ pc' = "return"
                                               /\ hist' = [hist EXCEPT
                                                             !.feed.cut_short = TRUE]
                                               /\ UNCHANGED <<episodes, rec_idx>>
                                ELSE /\ rec_idx' = rec_idx + 1
                                     /\ pc' = after_record(TRUE, rec_idx', n)
                                     /\ hist' = [hist EXCEPT !.feed.outcomes =
                                                   Append(@, "ul_failed")]
                                     /\ UNCHANGED <<episodes, uploaded_count>>
                    ELSE /\ rec_idx' = rec_idx + 1
                         /\ pc' = after_record(FALSE, rec_idx', n)
                         /\ hist' = [hist EXCEPT !.feed.outcomes = Append(@, "no_drive")]
                         /\ UNCHANGED <<episodes, drive, uploaded_count>>
  /\ UNCHANGED <<cfg_vars, call, svc, feed_entries, podcasts, clock, feed_idx, folder_mapping,
                 todo, episode_records, to_remove, totals, conn>>

\* The retention block up to its loop: get_podcast, effective_keep,
\* get_episodes_with_drive, episodes_to_remove. A catalog error is logged by
\* the block's own except.
EnforceRetention ==
  /\ pc = "retain"
  /\ \E db_ok \in BOOLEAN :
       LET eff == effective_keep(keep_count_cfg[CurFeed],
                                 db_keep_count(podcasts, CurFeed))
       IN  IF db_ok /\ retention_enforced(eff, drive_uploader)
             THEN \E drive_episodes \in get_episodes_with_drive(episodes, CurFeed) :
                    /\ to_remove' = episodes_to_remove(drive_episodes, The(eff))
                    /\ pc' = IF to_remove' # <<>> THEN "remove" ELSE "return"
                    /\ hist' = [hist EXCEPT !.feed.ret_entered = TRUE,
                                            !.feed.ret_done = TRUE,
                                            !.feed.ret_on = TRUE,
                                            !.feed.ret_listed = drive_episodes,
                                            !.feed.ret_keep = The(eff)]
             ELSE /\ pc' = "return"
                  /\ hist' = [hist EXCEPT !.feed.ret_entered = TRUE,
                                          !.feed.ret_done = db_ok]
                  /\ UNCHANGED to_remove
  /\ UNCHANGED <<cfg_vars, call, svc, feed_entries, episodes, podcasts, drive, clock, feed_idx,
                 folder_mapping, todo, episode_records, rec_idx, downloaded_count,
                 uploaded_count, totals, conn>>

\* One turn of the loop over episodes_to_remove: delete_file, and
\* mark_episode_in_drive(ep_id, False) when it returned True. Errors are logged.
RemoveStep ==
  /\ pc = "remove"
  /\ to_remove # <<>>
  /\ LET ep_id == Head(to_remove)
         file_id == The(episodes[ep_id].drive_file_id)
     IN  \E api_ok, db_ok \in BOOLEAN :
           LET deleted == delete_file_ok(drive, file_id, api_ok)
           IN  /\ drive' = delete_file(drive, file_id, api_ok)
               /\ episodes' = IF marks_removed(deleted) /\ db_ok
                                THEN mark_episode_in_drive(episodes, ep_id, FALSE)
                                ELSE episodes
               /\ hist' = [hist EXCEPT
                             !.feed.ret_fail = @ \/ ~(deleted /\ db_ok),
                             !.del_failed = IF deleted THEN @ \ {ep_id}
                                            ELSE @ \cup {ep_id}]
  /\ to_remove' = Tail(to_remove)
  /\ pc' = IF to_remove' = <<>> THEN "return" ELSE "remove"
  /\ UNCHANGED <<cfg_vars, call, svc, feed_entries, podcasts, clock, feed_idx, folder_mapping,
                 todo, episode_records, rec_idx, downloaded_count, uploaded_count,
                 totals, conn>>

\* return {'downloaded': ..., 'uploaded': ...} and the two += of
\* process_podcasts; the locals of process_single_podcast are gone
ReturnFeed ==
  /\ pc = "return"
  /\ total_downloaded' = total_downloaded + downloaded_count
  /\ total_uploaded' = total_uploaded + uploaded_count
  /\ feed_idx' = feed_idx + 1
  /\ pc' = "feed"
  /\ hist' = [hist EXCEPT
                !.results = Append(@, [feed |-> CurFeed, raised |-> FALSE,
                                       cut_short |-> hist.feed.cut_short,
                                       downloaded |-> downloaded_count,
                                       uploaded |-> uploaded_count]),
                !.settled = IF hist.feed.loop_done THEN @ \cup {CurFeed} ELSE @,
                !.feed = NoHistFeed]
  /\ todo' = <<>>
  /\ episode_records' = <<>>
  /\ rec_idx' = 0
  /\ downloaded_count' = 0
  /\ uploaded_count' = 0
  /\ to_remove' = <<>>
  /\ UNCHANGED <<cfg_vars, call, svc, feed_entries, episodes, podcasts, drive, clock,
                 folder_mapping, errors, conn>>

\* status_msg of process_podcasts: the error count is in it when there are errors
status_msg(downloaded, uploaded, n_errors) ==
  [downloaded |-> downloaded, uploaded |-> uploaded,
   errors |-> IF n_errors > 0 THEN {n_errors} ELSE None]

\* log_run_history: the record is appended, or the catalog error is logged and
\* swallowed
log_run_history(run_type, status, message, db_ok) ==
  IF db_ok THEN {[run_type |-> run_type, status |-> status, message |-> message]}
  ELSE None

\* run_once around process_podcasts: 0 when it returned, the exception again
\* when it raised
run_once_exit(raised) == IF raised THEN "raised" ELSE 0

\* The end of process_podcasts: the summary and the 'completed' run record;
\* its locals are gone when it returns.
FinishPass ==
  /\ pc = "feed"
  /\ feed_idx > NumFeeds
  /\ \E db_ok \in BOOLEAN :
       hist' = [hist EXCEPT
                  !.visited = {}, !.results = <<>>, !.feed = NoHistFeed,
                  !.reserved_before = {},
                  !.last_pass =
                    {[summary |-> status_msg(total_downloaded, total_uploaded, errors),
                      record |-> log_run_history("process", "completed",
                                   status_msg(total_downloaded, total_uploaded, errors),
                                   db_ok),
                      exit |-> run_once_exit(FALSE)]}]
  /\ pc' = "idle"
  /\ feed_idx' = 0
  /\ folder_mapping' = [fn \in Feeds |-> None]
  /\ todo' = <<>>
  /\ episode_records' = <<>>
  /\ rec_idx' = 0
  /\ downloaded_count' = 0
  /\ uploaded_count' = 0
  /\ to_remove' = <<>>
  /\ total_downloaded' = 0
  /\ total_uploaded' = 0
  /\ errors' = 0
  /\ UNCHANGED <<cfg_vars, call, svc, feed_entries, episodes, podcasts, drive, clock, conn>>

Next ==
  \/ \E f \in Feeds, u \in Urls : Publish(f, u)
  \/ StartPass
  \/ BeginFeed
  \/ FetchFeed
  \/ InsertStep
  \/ TransferStep
  \/ EnforceRetention
  \/ RemoveStep
  \/ ReturnFeed
  \/ FinishPass

Spec == Init /\ [][Next]_vars

\* ------------------------------------------- the process stopping in a pass
\* The process is gone with its locals; the catalog and the store stay as the
\* operations committed so far left them, and a new process starts idle.
Stopped(where) ==
  /\ pc' = NoPass.pc
  /\ feed_idx' = NoPass.feed_idx
  /\ folder_mapping' = NoPass.folder_mapping
  /\ todo' = NoPass.todo
  /\ episode_records' = NoPass.episode_records
  /\ rec_idx' = NoPass.rec_idx
  /\ downloaded_count' = 0
  /\ uploaded_count' = 0
  /\ to_remove' = <<>>
  /\ total_downloaded' = 0
  /\ total_uploaded' = 0
  /\ errors' = 0
  /\ hist' = [hist EXCEPT !.visited = {}, !.results = <<>>, !.feed = NoHistFeed,
                          !.last_pass = None, !.stopped = where,
                          !.reserved_before = {}]
  /\ UNCHANGED <<cfg_vars, call, svc, feed_entries, podcasts, clock, conn>>

\* the process stops between two turns of a loop or two steps of the pass
Stop ==
  /\ pc # "idle"
  /\ UNCHANGED <<episodes, drive>>
  /\ Stopped("between")

\* the process stops in a turn of the transfer loop after upload_stream
\* returned and before update_episode_drive_info committed
StopInTransfer ==
  /\ pc = "transfer"
  /\ rec_idx < Len(episode_records)
  /\ drive_uploader
  /\ drive_folder_id(CurFeed) # None
  /\ LET rec == episode_records[rec_idx + 1]
     IN  \E find_ok, create_ok \in BOOLEAN :
         \E up \in upload_stream(drive, custom_drive_name(rec),
                      The(drive_folder_id(CurFeed)), rec.db_id, find_ok, create_ok) :
           /\ up.file_id # None
           /\ drive' = up.files
           /\ episodes' = update_interrupted(episodes, rec.db_id, The(up.file_id))
  /\ Stopped("transfer")

\* the process stops in a turn of the delete loop after delete_file returned
\* True and before mark_episode_in_drive committed
StopInRemove ==
  /\ pc = "remove"
  /\ to_remove # <<>>
  /\ LET file_id == The(episodes[Head(to_remove)].drive_file_id)
     IN  /\ delete_file_ok(drive, file_id, TRUE)
         /\ drive' = delete_file(drive, file_id, TRUE)
  /\ UNCHANGED episodes
  /\ Stopped("remove")

NextCrash ==
  \/ Next
  \/ Stop
  \/ StopInTransfer
  \/ StopInRemove

\* a process with an uploader, each feed without keep_count or with one
InitCrash ==
  /\ Init
  /\ drive_uploader
  /\ \A f \in Feeds : keep_count_cfg[f] \in {None, {MaxKeep}}

SpecCrash == InitCrash /\ [][NextCrash]_vars

\* ------------------------------------ one audio url carried by two feeds
\* The RSS of feed f, the last feed of the configuration, gets an entry whose
\* enclosure is the audio url u of another feed (between two passes), before
\* or after that feed publishes it.
Syndicate(f, u) ==
  /\ pc = "idle"
  /\ FeedOf(u) # f
  /\ f = podcasts_cfg[NumFeeds]
  /\ \A v \in feed_entries[f] : PubDate(v) < PubDate(u)
  /\ feed_entries' = [feed_entries EXCEPT ![f] = @ \cup {u}]
  /\ hist' = [hist EXCEPT !.settled = @ \ {f}]
  /\ UNCHANGED <<cfg_vars, call, svc, episodes, podcasts, drive, clock, pc, feed_idx,
                 folder_mapping, feed_local, totals, conn>>

NextShared ==
  \/ Next
  \/ \E f \in Feeds, u \in Urls : Syndicate(f, u)

\* a process with an uploader; the first feed has a keep_count
InitShared ==
  /\ Init
  /\ drive_uploader
  /\ keep_count_cfg = [f \in Feeds |-> IF f = podcasts_cfg[1] THEN {MaxKeep} ELSE None]

SpecShared == InitShared /\ [][NextShared]_vars

\* ----------------------------------- add_episode on concurrent connections
\* A pass on connection p found episode_exists false for url and calls
\* add_episode(name, url); up to its INSERT: downloaded_date is read and
\* SELECT MAX(podcast_seq) sees the rows committed so far
AddEpisodeSelect(p, name, url) ==
  /\ conn[p].pc = "idle"
  /\ ~episode_exists(episodes, {url}, None)
  /\ clock' = clock + 1
  /\ conn' = [conn EXCEPT ![p] = [pc |-> "selected", name |-> name, url |-> url,
                                   now |-> clock', max_seq |-> MaxSeq(episodes, name)]]
  /\ UNCHANGED <<cfg_vars, call, svc, feed_entries, episodes, podcasts, drive, pc, feed_idx,
                 folder_mapping, feed_local, totals, hist>>

\* The rest of add_episode on connection p: INSERT with podcast_seq = max_seq + 1
\* and commit, or the UNIQUE constraint on episode_url raising
AddEpisodeInsert(p) ==
  /\ conn[p].pc = "selected"
  /\ episodes' = IF url_unique(episodes, conn[p].url)
                   THEN Append(episodes, NewRow(conn[p].name, conn[p].url,
                                                conn[p].now, conn[p].max_seq + 1))
                   ELSE episodes
  /\ conn' = [conn EXCEPT ![p] = NoConn]
  /\ UNCHANGED <<cfg_vars, call, svc, feed_entries, podcasts, drive, clock, pc, feed_idx,
                 folder_mapping, feed_local, totals, hist>>

InitConc ==
  /\ Init
  /\ keep_count_cfg = [f \in Feeds |-> None]
  /\ ~drive_uploader

NextConc ==
  \/ \E p \in Procs, name \in Feeds, url \in Urls : AddEpisodeSelect(p, name, url)
  \/ \E p \in Procs : AddEpisodeInsert(p)

SpecConc == InitConc /\ [][NextConc]_vars

\* ------------------------------- file names (src/podcast_downloader.py, main.py)
\* A string is a sequence of characters.
InvalidChars == {"<", ">", ":", "\"", "/", "\\", "|", "?", "*"}

DigitChars == <<"0", "1", "2", "3", "4", "5", "6", "7", "8", "9">>

\* str(n) of a natural number
RECURSIVE Str(_)
Str(n) ==
  IF n < 10 THEN <<DigitChars[n + 1]>>
  ELSE Str(n \div 10) \o <<DigitChars[(n % 10) + 1]>>

\* s.isdigit()
isdigit(s) ==
  /\ s # <<>>
  /\ \A i \in DOMAIN s : \E d \in DOMAIN DigitChars : DigitChars[d] = s[i]

\* s.split(sep): the parts between the occurrences of sep, the empty ones too
RECURSIVE Split(_, _)
Split(s, sep) ==
  IF \A i \in DOMAIN s : s[i] # sep
    THEN <<s>>
    ELSE LET k == CHOOSE i \in DOMAIN s :
                    s[i] = sep /\ \A j \in 1..(i - 1) : s[j] # sep
         IN  <<SubSeq(s, 1, k - 1)>> \o Split(SubSeq(s, k + 1, Len(s)), sep)

\* sep.join(parts)
RECURSIVE Join(_, _)
Join(parts, sep) ==
  IF parts = <<>> THEN <<>>
  ELSE IF Len(parts) = 1 THEN parts[1]
  ELSE parts[1] \o <<sep>> \o Join(Tail(parts), sep)

NonEmpty(part) == part # <<>>

\* s.strip(chars)
Strip(s, chars) ==
  LET keep == {i \in DOMAIN s : s[i] \notin chars}
  IN  IF keep = {} THEN <<>>
      ELSE SubSeq(s, CHOOSE i \in keep : \A j \in keep : i <= j, Max(keep))

\* _sanitize_filename: each invalid character replaced by "_", filename.split()
\* joined by " ", the non-empty parts of split("_") joined by "_",
\* strip(". "), and "untitled" for an empty result
sanitize_filename(filename) ==
  LET replaced == [i \in DOMAIN filename |->
                     IF filename[i] \in InvalidChars THEN "_" ELSE filename[i]]
      spaced == Join(SelectSeq(Split(replaced, " "), NonEmpty), " ")
      joined == Join(SelectSeq(Split(spaced, "_"), NonEmpty), "_")
      stripped == Strip(joined, {".", " "})
  IN  IF stripped = <<>> THEN <<"u", "n", "t", "i", "t", "l", "e", "d">>
      ELSE stripped

\* the prefix of _generate_filename: podcast_seq if not None, else upload_num,
\* which the pass has set on every record by then (db_id comes after it)
filename_prefix(rec) ==
  IF rec.podcast_seq # None THEN The(rec.podcast_seq) ELSE rec.upload_num

\* _generate_filename(episode, audio_url): suffix is Path(path).suffix of the
\* audio url, "" when the path has none
generate_filename(rec, title, suffix) ==
  LET extension == IF suffix = <<>> \/ Len(suffix) > 5
                     THEN <<".", "m", "p", "3">> ELSE suffix
      safe_title == sanitize_filename(title)
      prefix == Str(filename_prefix(rec))
      filename == prefix \o <<"-">> \o safe_title \o extension
  IN  IF Len(filename) > 200
        THEN prefix \o <<"-">>
               \o Take(safe_title, 200 - Len(extension) - (Len(prefix) + 1))
               \o extension
        ELSE filename

\* drive_name_for leaving the generated filename as it is
drive_name_unstripped(filename, rec) ==
  Str(prefix_for_drive(rec)) \o <<"-">> \o filename

\* custom_drive_name of a generated filename: what follows the first "-" when
\* what precedes it is a number, behind prefix_for_drive and "-"
drive_name_for(filename, rec) ==
  LET parts == Split(filename, "-")
      first == parts[1]
      rest_candidate == Join(Tail(parts), "-")
      rest == IF Len(parts) > 1 /\ isdigit(first) THEN rest_candidate ELSE filename
  IN  Str(prefix_for_drive(rec)) \o <<"-">> \o rest

\* --------------------------------------- catalog functions called on their own
\* everything but call
program_vars == <<cfg_vars, feed_entries, episodes, podcasts, drive, clock, pc,
                  feed_idx, folder_mapping, feed_local, totals, conn, svc, hist>>

Optional(S) == {None} \cup {{x} : x \in S}

Guids == 1..MaxGuid

\* catalogs of at most MaxRows rows, as add_episode(..., episode_guid) leaves
\* them: the urls differ, a guid is there or not
GuidTables ==
  LET rows == [url : Urls, guid : Optional(Guids)]
  IN  {[i \in DOMAIN t |->
          [NewRow(1, t[i].url, i, i) EXCEPT !.episode_guid = t[i].guid]] :
         t \in UNION {[1..m -> rows] : m \in 0..MaxRows}}

\* episode_exists(episode_url, episode_guid) on a catalog
CallEpisodeExists ==
  /\ call = NoCall
  /\ \E tbl \in {t \in GuidTables :
                   \A i, j \in DOMAIN t : i # j => t[i].episode_url # t[j].episode_url},
        url \in Optional(Urls), guid \in Optional(Guids) :
       call' = [op |-> "episode_exists", tbl |-> tbl, url |-> url, guid |-> guid,
                result |-> episode_exists(tbl, url, guid)]
  /\ UNCHANGED program_vars

\* raw RSS documents: item k has pubDate k or one that does not parse, and an
\* enclosure with url k or none
RawFeeds ==
  {{[parsed |-> IF st[k] \in {"valid", "no_audio"} THEN {k} ELSE None,
     audio_url |-> IF st[k] \in {"valid", "no_date"} THEN {k} ELSE None] :
       k \in {j \in 1..MaxRaw : st[j] # "absent"}} :
     st \in [1..MaxRaw -> {"absent", "valid", "no_date", "no_audio"}]}

\* Config.get_max_episodes_per_check: settings.max_episodes_per_check, 5 when
\* the settings do not have it
get_max_episodes_per_check(settings) ==
  IF settings.max_episodes_per_check = None THEN 5
  ELSE The(settings.max_episodes_per_check)

\* the "settings" of podcasts.json
Settings == [max_episodes_per_check : Optional(1..MaxPerCheck)]

\* the candidates process_single_podcast takes from a raw RSS document, under
\* the settings of the configuration
CallSelectCandidates ==
  /\ call = NoCall
  /\ \E raw \in RawFeeds, settings \in Settings :
       call' = [op |-> "select_candidates", raw |-> raw, settings |-> settings,
                result |-> episodes_reversed(valid_entries(raw))]
  /\ UNCHANGED program_vars

\* the table podcasts the calls made so far have left, an empty one at first
PodcastsOf(c) ==
  IF c.op = "podcasts" THEN c
  ELSE [op |-> "podcasts", rows |-> {}, seq |-> 0, n_calls |-> 0,
        last |-> None, last_of |-> [f \in Feeds |-> None], id |-> None]

RssUrls == 1..2
FolderNames == 1..2
FolderIds == {1}

\* add_or_update_podcast(name, rss_url, folder_name, drive_folder_id,
\* keep_count), by the pass or the dashboard, on the table as it is
CallAddOrUpdatePodcast ==
  /\ call.op \in {"none", "podcasts"}
  /\ PodcastsOf(call).n_calls < MaxCalls
  /\ \E name \in Feeds, url \in RssUrls, folder \in FolderNames,
        folder_id \in Optional(FolderIds), keep \in KeepCounts :
       LET c == PodcastsOf(call)
           args == [name |-> name, rss_url |-> url, folder_name |-> folder,
                    drive_folder_id |-> folder_id, keep_count |-> keep]
           t == add_or_update_podcast_row([rows |-> c.rows, seq |-> c.seq],
                                          args, c.n_calls + 1)
       IN  call' = [op |-> "podcasts", rows |-> t.rows, seq |-> t.seq,
                    n_calls |-> c.n_calls + 1, last |-> {args},
                    last_of |-> [c.last_of EXCEPT ![name] = {args}],
                    id |-> {t.id}]
  /\ UNCHANGED program_vars

\* the dashboard deletes the row of a podcast
CallDeletePodcast ==
  /\ call.op = "podcasts"
  /\ call.n_calls < MaxCalls
  /\ \E name \in Feeds :
       LET t == delete_podcast_row([rows |-> call.rows, seq |-> call.seq], name)
       IN  call' = [call EXCEPT !.rows = t.rows, !.n_calls = @ + 1,
                                !.last = None, !.last_of[name] = None,
                                !.id = None]
  /\ UNCHANGED program_vars

\* "My: Show/Title"
ExampleTitle ==
  <<"M", "y", ":", " ", "S", "h", "o", "w", "/", "T", "i", "t", "l", "e">>

TitleChars == {"a", "_", " ", ":", ".", "-", "1"}

\* episode titles: the short ones over TitleChars, and the example
Titles == UNION {[1..n -> TitleChars] : n \in 0..MaxTitle} \cup {ExampleTitle}

\* Path(path).suffix of audio urls: none, ".m4a", ".m:3" (from ep.m%3A3), and
\* one longer than five characters
Suffixes ==
  {<<>>, <<".", "m", "4", "a">>, <<".", "m", ":", "3">>,
   <<".", "f", "l", "a", "c", "x">>}

\* a record of episode_records in the transfer loop: podcast_seq is there
\* unless get_episode_by_id failed, upload_num and db_id always
NameRecords ==
  [url : {1}, db_id : {3}, podcast_seq : Optional({7, 12}), upload_num : 1..2]

\* download_episode_stream's filename and the transfer loop's
\* custom_drive_name for an episode
CallGenerateFilename ==
  /\ call = NoCall
  /\ \E rec \in NameRecords, title \in Titles, suffix \in Suffixes :
       LET filename == generate_filename(rec, title, suffix)
       IN  call' = [op |-> "generate_filename", rec |-> rec, title |-> title,
                    suffix |-> suffix, filename |-> filename,
                    custom_drive_name |-> drive_name_for(filename, rec)]
  /\ UNCHANGED program_vars

InitCalls ==
  /\ Init
  /\ keep_count_cfg = [f \in Feeds |-> None]
  /\ ~drive_uploader

NextCalls ==
  \/ CallEpisodeExists
  \/ CallSelectCandidates
  \/ CallAddOrUpdatePodcast
  \/ CallDeletePodcast
  \/ CallGenerateFilename

SpecCalls == InitCalls /\ [][NextCalls]_vars

\* ------------------------------------------ dashboard task control and service
\* everything but svc
pass_vars == <<cfg_vars, feed_entries, episodes, podcasts, drive, clock, pc,
               feed_idx, folder_mapping, feed_local, totals, conn, call, hist>>

\* is_run_once_locked: the lock file is there and the pid in it, the
\* dashboard's own, is alive
is_run_once_locked(lock_file) == lock_file

\* acquire_run_once_lock: open(RUN_ONCE_LOCK, 'x') unless locked
acquire_run_once_lock(lock_file) ==
  [acquired |-> ~is_run_once_locked(lock_file), lock_file |-> TRUE]

\* get_status()['running']: task.pid is there and its process is alive
status_running(s) == s.pid_file /\ s.sched # "none"

\* main.py --once processes running a pass, and the main.py service when it is
\* inside process_podcasts
ActivePasses(s) ==
  Cardinality({r \in Requests : s.once[r] # "idle"})
    + (IF s.sched \in {"initial", "pass"} THEN 1 ELSE 0)

\* run_once (kind "manual") and api_run_once_stream (kind "stream") up to the
\* start of main.py --once: refused when Drive is not connected or the lock is
\* not acquired
RunOnceBegin(r, kind) ==
  /\ svc.once[r] = "idle"
  /\ \E connected \in BOOLEAN :
       LET got == acquire_run_once_lock(svc.lock_file)
       IN  IF connected /\ got.acquired
             THEN svc' = [svc EXCEPT !.lock_file = got.lock_file,
                                     !.once[r] = kind,
                                     !.resp[r] = "none"]
             ELSE svc' = [svc EXCEPT !.resp[r] = "refused"]
  /\ UNCHANGED pass_vars

\* main.py --once ends with a return code; the caller answers and releases the
\* lock in its finally
RunOnceEnd(r) ==
  /\ svc.once[r] # "idle"
  /\ \E returncode \in {0, 1} :
       svc' = [svc EXCEPT !.lock_file = FALSE,
                          !.once[r] = "idle",
                          !.resp[r] = IF returncode = 0 THEN "ok" ELSE "failed"]
  /\ UNCHANGED pass_vars

\* start_task: Popen main.py when Drive is connected and no service runs;
\* run_scheduled goes into its immediate pass
StartTask ==
  /\ ~status_running(svc)
  /\ svc' = [svc EXCEPT !.pid_file = TRUE, !.sched = "initial", !.exit = "none"]
  /\ UNCHANGED pass_vars

\* process_podcasts returns or raises in run_scheduled: the immediate pass is
\* called outside the loop's try, the scheduled ones inside it
SchedPassEnd ==
  /\ svc.sched \in {"initial", "pass"}
  /\ \E raised \in BOOLEAN :
       IF raised /\ svc.sched = "initial"
         THEN svc' = [svc EXCEPT !.sched = "none", !.exit = "error"]
         ELSE svc' = [svc EXCEPT !.sched = "sleep"]
  /\ UNCHANGED pass_vars

\* schedule.run_pending() finds the job due
SchedPassStart ==
  /\ svc.sched = "sleep"
  /\ svc' = [svc EXCEPT !.sched = "pass"]
  /\ UNCHANGED pass_vars

\* stop_task: SIGTERM to the pid of task.pid, and the file removed
StopTask ==
  /\ svc.pid_file
  /\ svc' = [svc EXCEPT !.pid_file = FALSE, !.sched = "none",
                         !.exit = IF svc.sched # "none" THEN "stopped" ELSE @]
  /\ UNCHANGED pass_vars

InitService ==
  /\ Init
  /\ keep_count_cfg = [f \in Feeds |-> None]
  /\ ~drive_uploader

NextService ==
  \/ \E r \in Requests, kind \in {"manual", "stream"} : RunOnceBegin(r, kind)
  \/ \E r \in Requests : RunOnceEnd(r)
  \/ StartTask
  \/ SchedPassEnd
  \/ SchedPassStart
  \/ StopTask

SpecService == InitService /\ [][NextService]_vars

\* ----------------------------- run_once.lock, one file operation at a time
\* The requests of one dashboard process run on threads of their own; svc holds
\*   lock      : run_once.lock, None or {[creator, pid, content]}; lock_file
\*               says whether it is there
\*   dashboard : os.getpid() of the dashboard process now running
\*   req       : per request, its position in the lock functions
RequestKinds == {"manual", "api", "stream"}

\* os.kill(pid, 0) raises nothing: the process that wrote the pid is running
pid_alive(s, pid) == pid = s.dashboard

\* what the caller of is_run_once_locked does with its result: api_run_once
\* answers 409 or goes on to run_once, whose acquire_run_once_lock gives up or
\* goes on to open(RUN_ONCE_LOCK, 'x'); run_once refuses when Drive is not
\* connected
AfterLockCheck(rq, locked, connected) ==
  IF rq.fn = "precheck"
    THEN IF locked THEN [NoRequest EXCEPT !.resp = "busy"]
         ELSE IF connected THEN [rq EXCEPT !.pc = "exists", !.fn = "acquire"]
         ELSE [NoRequest EXCEPT !.resp = "refused"]
    ELSE IF locked THEN [NoRequest EXCEPT !.resp = "refused"]
         ELSE [rq EXCEPT !.pc = "create"]

\* a request arrives: task_control / api_run_once / api_run_once_stream
LockRequest(r, kind) ==
  /\ svc.req[r].pc = "idle"
  /\ \E connected \in BOOLEAN :
       svc' = [svc EXCEPT !.req[r] =
                 IF kind = "api"
                   THEN [pc |-> "exists", kind |-> kind, fn |-> "precheck",
                         resp |-> "none"]
                 ELSE IF connected
                   THEN [pc |-> "exists", kind |-> kind, fn |-> "acquire",
                         resp |-> "none"]
                 ELSE [NoRequest EXCEPT !.resp = "refused"]]
  /\ UNCHANGED pass_vars

\* is_run_once_locked: os.path.exists(RUN_ONCE_LOCK)
LockExists(r) ==
  /\ svc.req[r].pc = "exists"
  /\ \E connected \in BOOLEAN :
       svc' = [svc EXCEPT !.req[r] =
                 IF svc.lock = None THEN AfterLockCheck(@, FALSE, connected)
                 ELSE [@ EXCEPT !.pc = "read"]]
  /\ UNCHANGED pass_vars

\* is_run_once_locked: the file is opened and read, and its pid probed; a file
\* gone by now raises into the outer except, whose os.remove fails too
LockRead(r) ==
  /\ svc.req[r].pc = "read"
  /\ \E connected \in BOOLEAN :
       svc' = [svc EXCEPT !.req[r] =
                 IF svc.lock = None THEN AfterLockCheck(@, FALSE, connected)
                 ELSE IF The(svc.lock).content = "pid"
                         /\ pid_alive(svc, The(svc.lock).pid)
                   THEN AfterLockCheck(@, TRUE, connected)
                 ELSE [@ EXCEPT !.pc = "remove"]]
  /\ UNCHANGED pass_vars

\* is_run_once_locked: os.remove(RUN_ONCE_LOCK) of a lock found empty or of a
\* dead process, and False returned
LockRemoveStale(r) ==
  /\ svc.req[r].pc = "remove"
  /\ \E connected \in BOOLEAN :
       svc' = [svc EXCEPT !.lock = None, !.lock_file = FALSE,
                          !.req[r] = AfterLockCheck(@, FALSE, connected)]
  /\ UNCHANGED pass_vars

\* acquire_run_once_lock: open(RUN_ONCE_LOCK, 'x') creates the file empty, or
\* raises FileExistsError
LockCreate(r) ==
  /\ svc.req[r].pc = "create"
  /\ IF svc.lock # None
       THEN svc' = [svc EXCEPT !.req[r] = [NoRequest EXCEPT !.resp = "refused"]]
       ELSE svc' = [svc EXCEPT
                      !.lock = {[creator |-> r, pid |-> svc.dashboard,
                                 content |-> "empty"]},
                      !.lock_file = TRUE,
                      !.req[r].pc = "write"]
  /\ UNCHANGED pass_vars

\* acquire_run_once_lock: f.write(pid,ts) and close, into the file this request
\* opened, whether its name is still there or not; True is returned.
\* api_run_once_stream then hands generate() to the response, run_once goes
\* into subprocess.run
LockWrite(r) ==
  /\ svc.req[r].pc = "write"
  /\ LET mine == [creator |-> r, pid |-> svc.dashboard, content |-> "empty"]
     IN  svc' = [svc EXCEPT
                   !.lock = IF @ = {mine} THEN {[mine EXCEPT !.content = "pid"]}
                            ELSE @,
                   !.req[r].pc = IF svc.req[r].kind = "stream" THEN "unstarted"
                                 ELSE "running"]
  /\ UNCHANGED pass_vars

\* the response's generator is started: generate() enters its try
StreamStart(r) ==
  /\ svc.req[r].pc = "unstarted"
  /\ svc' = [svc EXCEPT !.req[r].pc = "running"]
  /\ UNCHANGED pass_vars

\* the response is dropped before its generator was ever started: closing a
\* generator that has not started runs none of its body, its finally included
StreamDiscarded(r) ==
  /\ svc.req[r].pc = "unstarted"
  /\ svc' = [svc EXCEPT !.req[r] = [NoRequest EXCEPT !.resp = "discarded"]]
  /\ UNCHANGED pass_vars

\* main.py --once ends, times out or fails to start; the finally of run_once
\* or of generate() calls release_run_once_lock
LockRunEnd(r) ==
  /\ svc.req[r].pc = "running"
  /\ \E returncode \in {0, 1} :
       svc' = [svc EXCEPT
                 !.lock = None, !.lock_file = FALSE,
                 !.req[r] = [NoRequest EXCEPT
                               !.resp = IF returncode = 0 THEN "ok" ELSE "failed"]]
  /\ UNCHANGED pass_vars

\* the dashboard process dies with its requests and is started again under
\* another pid; run_once.lock stays as it was
DashboardRestart ==
  /\ svc.dashboard <= MaxRestarts
  /\ svc' = [svc EXCEPT !.dashboard = @ + 1,
                        !.req = [r \in Requests |-> NoRequest]]
  /\ UNCHANGED pass_vars

InitLock == InitService

NextLock ==
  \/ \E r \in Requests, kind \in RequestKinds : LockRequest(r, kind)
  \/ \E r \in Requests : LockExists(r)
  \/ \E r \in Requests : LockRead(r)
  \/ \E r \in Requests : LockRemoveStale(r)
  \/ \E r \in Requests : LockCreate(r)
  \/ \E r \in Requests : LockWrite(r)
  \/ \E r \in Requests : StreamStart(r)
  \/ \E r \in Requests : StreamDiscarded(r)
  \/ \E r \in Requests : LockRunEnd(r)
  \/ DashboardRestart

SpecLock == InitLock /\ [][NextLock]_vars

\* ------------------------------------------------------------------ properties
RowsOf(name) == {i \in Ids : episodes[i].podcast_name = name}

\* the rows this call of process_single_podcast inserted
RecordIds == {episode_records[r].db_id : r \in DOMAIN episode_records}

InFeed == pc \in {"fetch", "insert", "transfer", "retain", "remove", "return"}

\* the remote lifecycle stage of a row
Stage(row) ==
  IF row.drive_file_id = None THEN "reserved"
  ELSE IF row.in_drive = 1 THEN "present"
  ELSE "absent"

InStore(file_id, files) == \E f \in files : f.id = file_id

NoRetention(f) == keep_count_cfg[f] \in {None, {-1}}

RECURSIVE SumSeq(_)
SumSeq(s) == IF s = <<>> THEN 0 ELSE Head(s) + SumSeq(Tail(s))

\* C1: over sequential passes, the podcast_seq values of a feed's rows are
\* strictly increasing in insertion order (so no two rows of the feed share
\* one), and the first row of every feed has podcast_seq 1.
C1_SeqStrictlyIncreasing ==
  /\ \A i, j \in Ids :
       (i < j /\ episodes[i].podcast_name = episodes[j].podcast_name)
         => episodes[i].podcast_seq < episodes[j].podcast_seq
  /\ \A i \in Ids :
       (\A j \in RowsOf(episodes[i].podcast_name) : i <= j)
         => episodes[i].podcast_seq = 1

\* a pass has inserted a row for a feed that holds a row of an earlier pass
C1_Witness ==
  /\ pc = "transfer"
  /\ episode_records # <<>>
  /\ RowsOf(CurFeed) \ RecordIds # {}

\* C2: two add_episode calls for the same feed, interleaved on their own
\* connections, never leave two rows of the feed with the same podcast_seq.
C2_NoDuplicateSeq ==
  \A i, j \in Ids :
    (i # j /\ episodes[i].podcast_name = episodes[j].podcast_name)
      => episodes[i].podcast_seq # episodes[j].podcast_seq

C5_NoRetentionWithoutKeepCount ==
  /\ (pc = "remove" /\ to_remove # <<>>) => ~NoRetention(CurFeed)
  /\ \A i \in Ids :
       NoRetention(episodes[i].podcast_name)
         => /\ Stage(episodes[i]) # "absent"
            /\ episodes[i].drive_file_id # None
                 => InStore(The(episodes[i].drive_file_id), drive)

\* the retention block ran for a feed without keep_count that has two rows
\* present
C5_Witness ==
  /\ pc = "return"
  /\ NoRetention(CurFeed)
  /\ hist.feed.ret_done
  /\ Cardinality(WithDrive(episodes, CurFeed)) >= 2

\* C6: a row whose download failed stays in the catalog with its podcast_seq,
\* without a remote id and with in_drive 0, and no later pass inserts another
\* row for its url.
C6_FailedDownloadRowPersists ==
  \A i \in hist.dl_failed :
    /\ i \in Ids
    /\ episodes[i].podcast_seq >= 1
    /\ episodes[i].drive_file_id = None
    /\ episodes[i].in_drive = 0
    /\ \A j \in Ids : j # i => episodes[j].episode_url # episodes[i].episode_url
    /\ \A r \in DOMAIN episode_records :
         episode_records[r].db_id # i
           => episode_records[r].url # episodes[i].episode_url

\* a later pass has been through the insert loop of a feed that holds a row
\* whose download failed in an earlier pass
C6_Witness ==
  /\ InFeed
  /\ hist.feed.loop_done
  /\ (hist.dl_failed \cap RowsOf(CurFeed)) \ RecordIds # {}
  /\ hist.feed.outcomes = <<>>

\* C7: between two feeds of a pass, every feed before feed_idx has been
\* processed, whether or not an earlier one raised, each has left one result,
\* and the totals hold the counts of all those that returned and the number of
\* those that raised.
C7_FeedFailureIsolation ==
  pc = "feed" =>
    LET res == hist.results
    IN  /\ hist.visited = {podcasts_cfg[k] : k \in 1..(feed_idx - 1)}
        /\ Len(res) = feed_idx - 1
        /\ \A k \in DOMAIN res : res[k].feed = podcasts_cfg[k]
        /\ total_downloaded =
             SumSeq([k \in DOMAIN res |-> IF res[k].raised THEN 0 ELSE res[k].downloaded])
        /\ total_uploaded =
             SumSeq([k \in DOMAIN res |-> IF res[k].raised THEN 0 ELSE res[k].uploaded])
        /\ errors = SumSeq([k \in DOMAIN res |-> IF res[k].raised THEN 1 ELSE 0])

\* a pass is over whose first feed raised and whose second feed uploaded
C7_Witness ==
  /\ pc = "feed"
  /\ feed_idx > NumFeeds
  /\ errors = 1
  /\ total_uploaded >= 1
  /\ hist.results[1].raised

\* a pass is over whose first feed uploaded and whose second feed raised
C7_WitnessLater ==
  /\ pc = "feed"
  /\ feed_idx > NumFeeds
  /\ total_uploaded >= 1
  /\ hist.results[2].raised

\* C8: when the transfer loop of a feed is over, every row the feed inserted in
\* this pass has had its download attempted, and its upload when the download
\* succeeded and the store is there, whatever happened to the rows before it.
C8_EpisodeFailureIsolation ==
  /\ pc \in {"retain", "remove"} => Len(hist.feed.outcomes) = Len(episode_records)
  /\ pc = "transfer" => /\ rec_idx < Len(episode_records)
                        /\ Len(hist.feed.outcomes) = rec_idx

\* the first row's download failed, or its upload did, and the second row was
\* uploaded
C8_Witness ==
  /\ pc = "retain"
  /\ Len(hist.feed.outcomes) = 2
  /\ hist.feed.outcomes[1] \in {"dl_failed", "ul_failed"}
  /\ hist.feed.outcomes[2] \in {"uploaded", "already_exists"}

\* C9: a row never leaves the catalog, a new row is reserved, and a row's stage
\* changes only from reserved to present and from present to absent.
C9_Lifecycle ==
  [][/\ Ids \subseteq DOMAIN episodes'
     /\ \A i \in DOMAIN episodes' \ Ids : Stage(episodes'[i]) = "reserved"
     /\ \A i \in Ids :
          \/ Stage(episodes'[i]) = Stage(episodes[i])
          \/ Stage(episodes[i]) = "reserved" /\ Stage(episodes'[i]) = "present"
          \/ Stage(episodes[i]) = "present" /\ Stage(episodes'[i]) = "absent"]_vars

\* a later pass has been through the insert and transfer loops of a feed that
\* holds a row made absent by an earlier pass, beside a reserved row and a
\* present one
C9_Witness ==
  /\ pc = "retain"
  /\ \E i \in RowsOf(CurFeed) \ RecordIds : Stage(episodes[i]) = "absent"
  /\ \E i \in Ids : Stage(episodes[i]) = "present"
  /\ \E i \in Ids : Stage(episodes[i]) = "reserved"

\* C10: a row with in_drive 1 has a remote id, and in_drive goes from 1 to 0
\* only in a turn of the delete loop for that row in which the row's remote
\* object was in the store and is no longer.
C10_InDriveConsistent ==
  /\ [](\A i \in Ids : episodes[i].in_drive = 1 => episodes[i].drive_file_id # None)
  /\ [][\A i \in Ids :
          (episodes[i].in_drive = 1 /\ episodes'[i].in_drive = 0)
            => /\ pc = "remove"
               /\ Head(to_remove) = i
               /\ InStore(The(episodes[i].drive_file_id), drive)
               /\ ~InStore(The(episodes[i].drive_file_id), drive')]_vars

\* the delete loop has deleted the remote object of a row and cleared its flag
C10_Witness ==
  /\ pc = "return"
  /\ hist.feed.ret_on
  /\ \E k \in DOMAIN hist.feed.ret_listed :
       LET i == hist.feed.ret_listed[k]
       IN  /\ Stage(episodes[i]) = "absent"
           /\ ~InStore(The(episodes[i].drive_file_id), drive)

\* the delete loop failed to delete the remote object of a row, which is still
\* marked present
C10_WitnessDeleteFailed ==
  /\ pc = "return"
  /\ hist.feed.ret_fail
  /\ \E k \in DOMAIN hist.feed.ret_listed :
       LET i == hist.feed.ret_listed[k]
       IN  /\ k > hist.feed.ret_keep
           /\ Stage(episodes[i]) = "present"
           /\ InStore(The(episodes[i].drive_file_id), drive)

\* C11: no step removes a row or changes the feed, url, sequence number or
\* discovery time of one, and a step of the retention block changes nothing of
\* the catalog but the in_drive flag of rows that were present.
C11_RowsNeverDeleted ==
  [][/\ Len(episodes') >= Len(episodes)
     /\ \A i \in Ids :
          /\ episodes'[i].podcast_name = episodes[i].podcast_name
          /\ episodes'[i].episode_url = episodes[i].episode_url
          /\ episodes'[i].podcast_seq = episodes[i].podcast_seq
          /\ episodes'[i].downloaded_date = episodes[i].downloaded_date
     /\ pc \in {"retain", "remove"} =>
          /\ Len(episodes') = Len(episodes)
          /\ \A i \in Ids :
               \/ episodes'[i] = episodes[i]
               \/ /\ Stage(episodes[i]) = "present"
                  /\ episodes'[i] = [episodes[i] EXCEPT !.in_drive = 0]]_vars

\* a pass has ended in which retention deleted a remote object, and every url
\* ever published still has its row
C11_Witness ==
  /\ pc = "idle"
  /\ hist.last_pass # None
  /\ \E i \in Ids : Stage(episodes[i]) = "absent"
  /\ \A f \in Feeds : \A u \in feed_entries[f] : \E i \in Ids : episodes[i].episode_url = u
  /\ Len(episodes) >= 2

\* C12: episode_exists(url, guid) is true exactly when a row matches one of
\* the keys supplied, the guid also when a url is supplied with it, and false
\* when neither key is supplied.
C12_ExistsByEitherKey ==
  call.op = "episode_exists" =>
    call.result =
      \/ /\ call.url # None
         /\ \E i \in DOMAIN call.tbl : call.tbl[i].episode_url = The(call.url)
      \/ /\ call.guid # None
         /\ \E i \in DOMAIN call.tbl : call.tbl[i].episode_guid = call.guid

\* C13: the candidates taken from a raw document are entries that have both a
\* date and an audio url, each once, as many as there are such entries up to
\* the cap of 5, none older than a valid entry left out, oldest first.
C13_CandidateSelection ==
  call.op = "select_candidates" =>
    LET res == call.result
        chosen == {res[i] : i \in DOMAIN res}
        valid == {The(e.audio_url) :
                    e \in {x \in call.raw : x.parsed # None /\ x.audio_url # None}}
    IN  /\ chosen \subseteq valid
        /\ Cardinality(chosen) = Len(res)
        /\ Len(res) = IF Cardinality(valid) < LatestCap
                        THEN Cardinality(valid) ELSE LatestCap
        /\ \A u \in valid \ chosen : \A v \in chosen : PubDate(u) < PubDate(v)
        /\ \A i, j \in DOMAIN res : i < j => PubDate(res[i]) < PubDate(res[j])

\* a document with more valid entries than the cap and an entry without a
\* date: as many as the cap are taken and a valid entry is left out
C13_Witness ==
  /\ call.op = "select_candidates"
  /\ Len(call.result) = LatestCap
  /\ \E e \in call.raw : e.parsed = None
  /\ \E e \in call.raw : e.parsed # None /\ e.audio_url # None
                         /\ \A i \in DOMAIN call.result : call.result[i] # The(e.audio_url)

\* a document with fewer valid entries than the cap and entries lacking a date
\* or an enclosure: exactly the valid ones are taken
C13_WitnessFew ==
  /\ call.op = "select_candidates"
  /\ Len(call.result) = 2
  /\ Cardinality(call.raw) = MaxRaw

\* C14: at no time are two passes active: a manual run-once, a streamed
\* run-once and a pass of the background service exclude one another.
C14_OnePassAtATime == ActivePasses(svc) <= 1

\* C15: a pass that has ended has appended a 'completed' run-history record
\* holding its summary: the downloaded, uploaded and error counts.
C15_PassEndsWithCompletedRecord ==
  hist.last_pass # None =>
    LET last == The(hist.last_pass)
    IN  /\ last.record # None
        /\ The(last.record).status = "completed"
        /\ The(last.record).message = last.summary

\* C16: between two feeds of a pass, the error count is the number of feeds
\* processed so far whose processing was cut short by an exception.
C16_EveryFeedErrorCounted ==
  pc = "feed" =>
    errors = SumSeq([k \in DOMAIN hist.results |->
                       IF hist.results[k].cut_short THEN 1 ELSE 0])

\* C17: a pass in which the catalog failed (add_or_update_podcast raised for a
\* feed, which the summary counts) ends with run_once reporting failure.
C17_CatalogFailureAbortsPass ==
  (hist.last_pass # None /\ The(hist.last_pass).summary.errors # None)
    => The(hist.last_pass).exit # 0

\* C18: the scheduled service never exits because a pass raised an exception,
\* the immediate first pass included: run_scheduled is never left with an error.
C18_ServiceSurvivesPassErrors == svc.exit # "error"

\* where a feed has no destination in the object store
NoDestination == ~drive_uploader \/ folder_mapping[folder_name_cfg[CurFeed]] = None

\* C19: without an uploader or a folder id for the feed, every row the feed
\* inserts has its podcast_seq and stays without remote id and not in_drive,
\* every candidate has its row once the insert loop is over, and no turn of the
\* transfer loop uploads or changes a row.
C19_NoDestinationStillCatalogued ==
  /\ []((InFeed /\ NoDestination) =>
          /\ \A i \in RecordIds :
               /\ episodes[i].podcast_seq >= 1
               /\ episodes[i].drive_file_id = None
               /\ episodes[i].in_drive = 0
          /\ \A k \in DOMAIN hist.feed.outcomes :
               hist.feed.outcomes[k] \in {"dl_failed", "no_drive"}
          /\ uploaded_count = 0
          /\ hist.feed.loop_done =>
               \A u \in feed_entries[CurFeed] :
                 \E i \in Ids : episodes[i].episode_url = u)
  /\ [][(pc = "transfer" /\ NoDestination) =>
          (drive' = drive /\ episodes' = episodes)]_vars

\* the transfer loop of a feed is over, with an uploader but no folder id: two
\* rows were inserted and downloaded, none uploaded
C19_Witness ==
  /\ pc = "retain"
  /\ drive_uploader
  /\ NoDestination
  /\ hist.feed.outcomes = <<"no_drive", "no_drive">>
  /\ downloaded_count = 2

\* C20: after any sequence of add_or_update_podcast calls (and deletions) the
\* table has exactly one row for each name that was upserted since its last
\* deletion and none for the others; the row holds the rss_url, folder_name and
\* drive_folder_id of the last call for that name and its keep_count, -1 where
\* that was None, never NULL; the call returns the id of that row; and a call
\* for a name that has a row leaves the row's id and enabled flag as they were.
C20_UpsertKeyedOnName ==
  /\ [](call.op = "podcasts" =>
         /\ \A name \in Feeds :
              LET found == RowNamed(call.rows, name)
              IN  IF call.last_of[name] = None
                    THEN found = {}
                    ELSE /\ Cardinality(found) = 1
                         /\ LET row == The(found)
                                 args == The(call.last_of[name])
                             IN  /\ row.rss_url = args.rss_url
                                 /\ row.folder_name = args.folder_name
                                 /\ row.drive_folder_id = args.drive_folder_id
                                 /\ row.keep_count # None
                                 /\ row.keep_count =
                                      (IF args.keep_count = None THEN {-1}
                                       ELSE args.keep_count)
         /\ call.last # None =>
              call.id = {The(RowNamed(call.rows, The(call.last).name)).id})
  /\ [][(call.op = "podcasts" /\ call'.op = "podcasts" /\ call'.last # None) =>
          \A old \in call.rows : \A new \in call'.rows :
            old.name = new.name =>
              (new.id = old.id /\ new.enabled = old.enabled)]_vars

\* the third call is an update, with keep_count None, of the row the first call
\* inserted, after an insert for the other name
C20_Witness ==
  /\ call.op = "podcasts"
  /\ call.seq = 3
  /\ Cardinality(call.rows) = 2
  /\ call.last # None
  /\ The(call.last).keep_count = None
  /\ \E row \in call.rows :
       /\ row.name = The(call.last).name
       /\ row.id = 1
       /\ row.last_checked = {3}
       /\ row.keep_count = {-1}

C21_WitnessReserved ==
  /\ hist.feed.ret_on
  /\ pc = "return"
  /\ hist.feed.ret_listed # <<>>
  /\ \E i \in RowsOf(CurFeed) : Stage(episodes[i]) = "reserved"

\* the list of a feed was taken, not empty, while the feed had a row made
\* absent by an earlier pass
C21_WitnessAbsent ==
  /\ hist.feed.ret_on
  /\ pc = "return"
  /\ hist.feed.ret_listed # <<>>
  /\ \E i \in RowsOf(CurFeed) :
       /\ Stage(episodes[i]) = "absent"
       /\ \A k \in DOMAIN hist.feed.ret_listed : hist.feed.ret_listed[k] # i

Separators == {"_", " "}

\* C22: for the title "My: Show/Title", podcast_seq 7 and an audio url without
\* extension the generated filename is "7-My_Show_Title.mp3"; and every
\* generated filename is free of the characters <>:"/\|?* and has no two
\* separators (underscore or space) in a row.
C22_FilenameGeneration ==
  call.op = "generate_filename" =>
    /\ (call.title = ExampleTitle /\ call.rec.podcast_seq = {7}
           /\ call.suffix = <<>>)
          => call.filename =
               <<"7", "-", "M", "y", "_", "S", "h", "o", "w", "_",
                 "T", "i", "t", "l", "e", ".", "m", "p", "3">>
    /\ \A i \in DOMAIN call.filename : call.filename[i] \notin InvalidChars
    /\ \A i \in DOMAIN call.filename :
         i > 1 => ~(call.filename[i - 1] \in Separators
                     /\ call.filename[i] \in Separators)

\* the files of the feed's folder that have the name the record's upload takes
SameName(rec) ==
  {f \in drive : /\ f.name = custom_drive_name(rec)
                 /\ f.folder = The(folder_mapping[folder_name_cfg[CurFeed]])}

CompleteRow(row) ==
  /\ row.podcast_name \in Feeds
  /\ row.episode_url \in Urls
  /\ row.downloaded_date >= 1
  /\ row.podcast_seq >= 1
  /\ row.in_drive \in {0, 1}

C25_ReserveBeforeTransfer ==
  /\ [](pc = "insert" =>
          /\ hist.feed.outcomes = <<>>
          /\ downloaded_count = 0
          /\ rec_idx = 0)
  /\ [](pc = "transfer" =>
          \A r \in DOMAIN episode_records :
            LET rec == episode_records[r]
            IN  /\ rec.db_id \in Ids
                /\ episodes[rec.db_id].podcast_name = CurFeed
                /\ episodes[rec.db_id].episode_url = rec.url
                /\ episodes[rec.db_id].podcast_seq >= 1
                /\ r > rec_idx => Stage(episodes[rec.db_id]) = "reserved")
  /\ [][(pc = "transfer"
          /\ (downloaded_count' # downloaded_count
               \/ hist'.feed.outcomes # hist.feed.outcomes)) =>
          LET rec == episode_records[rec_idx + 1]
          IN  /\ rec.db_id \in Ids
              /\ episodes[rec.db_id].episode_url = rec.url
              /\ episodes[rec.db_id].podcast_seq >= 1]_vars

\* the download of the second new episode of a feed is about to be attempted
\* after the first one's failed: both have their rows, with sequence numbers
C25_Witness ==
  /\ pc = "transfer"
  /\ rec_idx = 1
  /\ Len(episode_records) = 2
  /\ hist.feed.outcomes = <<"dl_failed">>
  /\ episodes[episode_records[1].db_id].podcast_seq
       < episodes[episode_records[2].db_id].podcast_seq

\* C26: when process_single_podcast returns for a feed that has a keep_count
\* above 0, with an uploader, the retention block has been entered for the
\* feed in this pass, whatever the feed's downloads and uploads did and also
\* when the feed gave no new episode.
C26_RetentionAlwaysRuns ==
  (/\ pc = "return"
   /\ drive_uploader
   /\ keep_count_cfg[CurFeed] # None
   /\ The(keep_count_cfg[CurFeed]) > 0)
    => hist.feed.ret_entered

\* C27: a turn of the delete loop whose remote delete fails leaves the catalog
\* as it was (the row in_drive 1 with its remote id) and goes on to the next
\* surplus row without trying the delete again; and the next time the feed's
\* present rows are listed for retention, a row whose delete failed is in the
\* surplus again.
C27_FailedDeleteStaysCandidate ==
  /\ [][(pc = "remove" /\ drive' = drive /\ hist'.stopped = "no") =>
          /\ episodes' = episodes
          /\ episodes[Head(to_remove)].in_drive = 1
          /\ episodes[Head(to_remove)].drive_file_id # None
          /\ to_remove' = Tail(to_remove)
          /\ to_remove' # <<>> => pc' = "remove"]_vars
  /\ [][(pc = "retain" /\ hist'.feed.ret_on) =>
          \A i \in hist.del_failed \cap RowsOf(CurFeed) :
            \E k \in DOMAIN to_remove' : to_remove'[k] = i]_vars

\* C28: the candidates taken from a feed in one pass are at most the
\* configured settings.max_episodes_per_check, 5 when it is not configured.
C28_ConfiguredCapBoundsCandidates ==
  call.op = "select_candidates" =>
    Len(call.result) <= get_max_episodes_per_check(call.settings)

\* C29: the records of the episodes a feed inserted in this pass are in the
\* order of their publish dates, oldest first, with upload_num 1..K in that
\* order and row ids and podcast_seq growing with it; the transfer loop takes
\* them in that order, so a record behind the loop's position is still
\* reserved, and a turn of the loop changes the row of its record alone.
C29_OldestFirstOrder ==
  /\ [](InFeed =>
          /\ \A r \in DOMAIN episode_records :
               episode_records[r].upload_num = r
          /\ \A r1, r2 \in DOMAIN episode_records :
               r1 < r2 =>
                 LET a == episode_records[r1]
                     b == episode_records[r2]
                 IN  /\ PubDate(a.url) < PubDate(b.url)
                     /\ a.db_id < b.db_id
                     /\ episodes[a.db_id].podcast_seq < episodes[b.db_id].podcast_seq
          /\ \A r \in DOMAIN episode_records :
               (pc \in {"insert", "transfer"} /\ r > rec_idx)
                 => Stage(episodes[episode_records[r].db_id]) = "reserved")
  /\ [][pc = "transfer" =>
          /\ rec_idx' \in {rec_idx, rec_idx + 1}
          /\ \A i \in Ids :
               i # episode_records[rec_idx + 1].db_id => episodes'[i] = episodes[i]]_vars

\* two episodes inserted in one pass were both uploaded: the one published
\* later has the larger podcast_seq and the file created later
C29_Witness ==
  /\ pc = "retain"
  /\ Len(episode_records) = 2
  /\ hist.feed.outcomes = <<"uploaded", "uploaded">>
  /\ LET a == episode_records[1]
         b == episode_records[2]
     IN  /\ PubDate(a.url) < PubDate(b.url)
         /\ episodes[a.db_id].podcast_seq < episodes[b.db_id].podcast_seq
         /\ Stage(episodes[a.db_id]) = "present"
         /\ Stage(episodes[b.db_id]) = "present"
         /\ The(episodes[a.db_id].drive_file_id)
              < The(episodes[b.db_id].drive_file_id)

C30_WitnessSeq ==
  /\ call.op = "generate_filename"
  /\ call.rec.podcast_seq = {12}
  /\ call.custom_drive_name = <<"1", "2", "-", "a", " ", "a", ".", "m", "4", "a">>

\* requests whose acquire_run_once_lock returned True and whose
\* release_run_once_lock has not run
LockHolders(s) == {r \in Requests : s.req[r].pc \in {"unstarted", "running"}}

\* C31: whatever the interleaving of the file operations of the requests, at
\* most one request at a time has acquired the run-once lock and not released
\* it.
C31_LockMutualExclusion == Cardinality(LockHolders(svc)) <= 1

\* a request that held the lock and holds it no more has run
\* release_run_once_lock: the file is gone
ReleasedWhenRunEnds ==
  \A r \in Requests :
    (r \in LockHolders(svc) /\ r \notin LockHolders(svc')
       /\ svc'.dashboard = svc.dashboard)
      => svc.req[r].pc = "running" /\ svc'.lock = None

\* the written lock of a request that holds it is removed by that request only
HolderLockKept ==
  \A c \in LockHolders(svc) :
    (svc.lock = {[creator |-> c, pid |-> svc.dashboard, content |-> "pid"]}
       /\ svc'.lock = None)
      => c \notin LockHolders(svc')

\* a request that has read the lock of a dead process goes on to remove it and
\* does not take it for held
StaleLockRemoved ==
  \A r \in Requests :
    /\ (svc.req[r].pc = "read" /\ svc'.req[r].pc # "read" /\ svc.lock # None
          /\ svc'.dashboard = svc.dashboard
          /\ ~pid_alive(svc, The(svc.lock).pid))
         => svc'.req[r].pc = "remove"
    /\ (svc.req[r].pc = "remove" /\ svc'.req[r].pc # "remove"
          /\ svc'.dashboard = svc.dashboard)
         => svc'.lock = None /\ svc'.req[r].resp \notin {"busy"}

\* C32: every request that acquired the run-once lock releases it when its run
\* ends, however it ends and also when the stream is never consumed; the lock
\* of the request holding it is removed by no other request; and a request
\* that finds the lock of a dead process removes it as stale.
C32_LockReleased ==
  [][ReleasedWhenRunEnds /\ HolderLockKept /\ StaleLockRemoved]_vars

\* C33: a row that had no remote id when a pass began is still reserved at
\* every point of the pass, and is not among the records the pass downloads
\* and uploads, by id or by url; so a row reserved at the end of one pass stays
\* reserved through every later one.
C33_ReservedNeverRetried ==
  \A i \in hist.reserved_before :
    /\ i \in Ids
    /\ Stage(episodes[i]) = "reserved"
    /\ \A r \in DOMAIN episode_records :
         /\ episode_records[r].db_id # i
         /\ episode_records[r].url # episodes[i].episode_url

\* a later pass is through the insert and transfer loops of a feed that still
\* publishes the url of a row left reserved by an earlier pass, and has
\* uploaded a newer episode of the feed
C33_Witness ==
  /\ pc = "retain"
  /\ hist.feed.loop_done
  /\ \E i \in hist.reserved_before \cap RowsOf(CurFeed) :
       episodes[i].episode_url \in feed_entries[CurFeed]
  /\ \E k \in DOMAIN hist.feed.outcomes : hist.feed.outcomes[k] = "uploaded"

\* rows the feed being processed inserted in this pass that have been given a
\* remote id since
SwitchedToPresent == {i \in RecordIds : episodes[i].drive_file_id # None}

\* the counters of a feed against the rows it inserted in this pass
CountersBounded ==
  InFeed => /\ uploaded_count <= downloaded_count
            /\ downloaded_count <= Len(episode_records)

\* the pass totals are the sums of the counters returned by the feeds that did
\* not raise
TotalsAreSums ==
  pc = "feed" =>
    /\ total_downloaded =
         SumSeq([k \in DOMAIN hist.results |->
                   IF hist.results[k].raised THEN 0 ELSE hist.results[k].downloaded])
    /\ total_uploaded =
         SumSeq([k \in DOMAIN hist.results |->
                   IF hist.results[k].raised THEN 0 ELSE hist.results[k].uploaded])

\* C34: for every feed of a pass, uploaded_count <= downloaded_count <= the
\* number of rows the feed inserted in the pass; when the feed returns,
\* uploaded_count is the number of those rows that were switched to present;
\* and the pass totals are the sums of the counters of the feeds that did not
\* raise.
C34_PassCounters ==
  /\ CountersBounded
  /\ pc = "return" => uploaded_count = Cardinality(SwitchedToPresent)
  /\ TotalsAreSums

\* uploaded_count is the number of rows switched to present whenever the feed
\* was not cut short by a catalog error
CountersWithoutCatalogError ==
  /\ CountersBounded
  /\ (pc = "return" /\ ~hist.feed.cut_short)
       => uploaded_count = Cardinality(SwitchedToPresent)
  /\ TotalsAreSums

\* the feed's keep_count is a positive integer
PositiveKeep(f) == keep_count_cfg[f] # None /\ The(keep_count_cfg[f]) > 0

\* C35: the delete loop is entered only for a feed whose keep_count is a
\* positive integer and with an uploader; a remote object leaves the store and
\* an in_drive flag is cleared only there; so for a feed with keep_count 0 or
\* less no row is ever made absent and every recorded object stays in the
\* store, as with no keep_count at all.
C35_KeepZeroRetainsAll ==
  /\ [](pc = "remove" => PositiveKeep(CurFeed) /\ drive_uploader)
  /\ [][((\E f \in drive : f \notin drive')
           \/ (\E i \in Ids : episodes[i].in_drive = 1 /\ episodes'[i].in_drive = 0))
          => (pc = "remove" /\ PositiveKeep(CurFeed) /\ drive_uploader)]_vars
  /\ [](\A i \in Ids :
          ~PositiveKeep(episodes[i].podcast_name)
            => /\ Stage(episodes[i]) # "absent"
               /\ episodes[i].drive_file_id # None
                    => InStore(The(episodes[i].drive_file_id), drive))

\* the retention block has run, with an uploader, for a feed with keep_count 0
\* that has two rows present
C35_Witness ==
  /\ pc = "return"
  /\ keep_count_cfg[CurFeed] = {0}
  /\ drive_uploader
  /\ hist.feed.ret_done
  /\ Cardinality(WithDrive(episodes, CurFeed)) >= 2

\* row i is present and fewer than n other present rows of its feed were
\* discovered at its time or later: it is among the n newest present whatever
\* the order of rows discovered at the same time
AmongNewestPresent(i, n) ==
  /\ Stage(episodes[i]) = "present"
  /\ Cardinality({j \in WithDrive(episodes, episodes[i].podcast_name) \ {i} :
                    episodes[j].downloaded_date >= episodes[i].downloaded_date}) < n

\* C36: a step of the retention block of feed F adds and removes no row,
\* leaves as they are the rows of the other feeds, the rows of F that are
\* reserved or absent and the rows of F among the keep_count newest present,
\* and changes nothing but in_drive on any other row.
C36_RetentionFrame ==
  [][(pc \in {"retain", "remove"}) =>
       /\ Len(episodes') = Len(episodes)
       /\ \A i \in Ids :
            /\ episodes[i].podcast_name # CurFeed => episodes'[i] = episodes[i]
            /\ Stage(episodes[i]) # "present" => episodes'[i] = episodes[i]
            /\ (PositiveKeep(CurFeed)
                  /\ AmongNewestPresent(i, The(keep_count_cfg[CurFeed])))
                 => episodes'[i] = episodes[i]
            /\ episodes'[i] = [episodes[i] EXCEPT !.in_drive = episodes'[i].in_drive]]_vars

\* retention of a feed has made its older row absent and kept its newest,
\* beside a present row of the other feed
C36_Witness ==
  /\ pc = "return"
  /\ hist.feed.ret_on
  /\ ~hist.feed.ret_fail
  /\ \E i, j \in RowsOf(CurFeed) :
       /\ Stage(episodes[i]) = "absent"
       /\ Stage(episodes[j]) = "present"
  /\ \E i \in Ids : episodes[i].podcast_name # CurFeed /\ Stage(episodes[i]) = "present"

\* C37: no two rows marked present carry the same remote object id.
C37_PresentRowsOwnTheirObject ==
  \A i, j \in Ids :
    (i # j /\ Stage(episodes[i]) = "present" /\ Stage(episodes[j]) = "present")
      => episodes[i].drive_file_id # episodes[j].drive_file_id

\* the rows of S that have fewer than n rows of S with a greater podcast_seq
GreatestSeq(S, n) ==
  {i \in S : Cardinality({j \in S : episodes[j].podcast_seq > episodes[i].podcast_seq}) < n}

\* C38: when a retention run with keep_count N has ended with all its deletes
\* and marks done, the rows of the feed left present are the N of the listed
\* present rows with the greatest podcast_seq (all of them when there are no
\* more than N), also when rows share their downloaded_date.
C38_RetentionFollowsSeq ==
  (pc = "return" /\ hist.feed.ret_on /\ ~hist.feed.ret_fail)
    => LET listed == hist.feed.ret_listed
           before == {listed[k] : k \in DOMAIN listed}
       IN  WithDrive(episodes, CurFeed) = GreatestSeq(before, hist.feed.ret_keep)

\* the candidate the insert loop is looking at is catalogued under another feed
CandidateOfOtherFeed ==
  /\ pc = "insert"
  /\ todo # <<>>
  /\ \E i \in Ids : /\ episodes[i].episode_url = Head(todo)
                     /\ episodes[i].podcast_name # CurFeed

\* C39: no two rows carry the same episode_url; no INSERT of a pass is refused
\* by the UNIQUE constraint; a candidate whose url is catalogued under another
\* feed gets no row, no record and no object, the loop going on to the next
\* candidate unless the catalog itself fails; and every record a feed
\* transfers is a row of that feed.
C39_GlobalDedup ==
  /\ [](\A i, j \in Ids : i # j => episodes[i].episode_url # episodes[j].episode_url)
  /\ [](~hist.feed.unique_violation)
  /\ [](\A r \in DOMAIN episode_records :
          /\ episodes[episode_records[r].db_id].podcast_name = CurFeed
          /\ episodes[episode_records[r].db_id].episode_url = episode_records[r].url)
  /\ [][CandidateOfOtherFeed =>
          /\ episodes' = episodes
          /\ episode_records' = episode_records
          /\ drive' = drive
          /\ \/ todo' = Tail(todo)
             \/ hist'.feed.cut_short /\ pc' = "return"]_vars

\* the insert loop of a feed is over; the feed carries a url catalogued under
\* the other feed and a url of its own, which it has just inserted
C39_Witness ==
  /\ pc = "transfer"
  /\ hist.feed.loop_done
  /\ \E u \in feed_entries[CurFeed] :
       \E i \in Ids : /\ episodes[i].episode_url = u
                      /\ episodes[i].podcast_name # CurFeed
  /\ Len(episode_records) = 1

====
